---- MODULE Spec2Model ----
(***************************************************************************)
(* siltex `tex2png`: the TEX container header parser and the pixel         *)
(* decoders of src/main.rs, as a state machine over the steps of main().   *)
(*                                                                         *)
(* Fixed-width machine integers (usize, u32) are little-endian sequences   *)
(* of 8-bit limbs, so that sign extension, wrapping and overflow are       *)
(* computed exactly as the hardware does, at the real widths.              *)
(***************************************************************************)
EXTENDS Integers, Sequences, FiniteSets, TLC

VARIABLES
    tex,            \* the file buffer (Vec<u8>), mutated in place on the Bgra8888 path
    tex0,           \* the file as read from disk (history of `tex`)
    usizeBytes,     \* build target: size of usize in bytes (4 or 8)
    overflowChecks, \* build profile: TRUE = overflow-checks on (debug), FALSE = wrapping (release)
    pc,             \* position in main()
    header,         \* TexHeader
    headerRead,     \* TRUE once any byte of tex has been indexed
    format,         \* TexFormat looked up from header.format, or "none"
    sliced,         \* TRUE once `pixels` has been sliced out of tex
    pixStart,       \* start index of `pixels` within tex (0-based)
    pixLen,         \* pixels.len()
    buffer,         \* the Bgra5551 expansion buffer (Vec<MaybeUninit<u8>>)
    i,              \* loop index of the decode loops
    decoded,        \* number of pixels decoded so far
    outcome,        \* how main() ended, "running" until then
    errArg,         \* the value printed with the failure message
    exitCode,       \* "none" | "SUCCESS" | "FAILURE" | "PANIC"
    fileCreated,    \* TRUE once File::create(out_path) has run
    sink            \* what the png encoder was handed

vars == <<tex, tex0, usizeBytes, overflowChecks, pc, header, headerRead, format,
          sliced, pixStart, pixLen, buffer, i, decoded, outcome, errArg, exitCode,
          fileCreated, sink>>

-----------------------------------------------------------------------------
(* Bounds of the input space *)

\* width and height of generated headers range over -MaxDim..MaxDim
MaxDim == 2
\* the pixel-variety inputs hold 1..MaxPixels pixels
MaxPixels == 2

-----------------------------------------------------------------------------
(* Program constants *)

MAGIC == <<84, 69, 88, 10>>     \* b"TEX\n"
HEADER_SIZE == 32
SUPPORTED_VERSION == 2
Uninit == -1                    \* a MaybeUninit<u8> that was never written

-----------------------------------------------------------------------------
(* Machine integers as little-endian limb sequences *)

RECURSIVE ToWord(_, _)
\* `x as uN` for an n-byte N: two's complement, sign-extending a negative x
ToWord(x, n) ==
    IF n = 0 THEN <<>>
    ELSE <<x % 256>> \o ToWord((x - (x % 256)) \div 256, n - 1)

Zeros(n) == [k \in 1..n |-> 0]

RECURSIVE AddFull(_, _, _)
\* a + b + c over equal-length words; the result has one more limb, the carry
AddFull(a, b, c) ==
    IF Len(a) = 0 THEN <<c>>
    ELSE LET s == a[1] + b[1] + c
         IN  <<s % 256>> \o AddFull(Tail(a), Tail(b), s \div 256)

WrappingAdd(a, b) == SubSeq(AddFull(a, b, 0), 1, Len(a))
AddOverflows(a, b) == AddFull(a, b, 0)[Len(a) + 1] # 0

RECURSIVE ScaleTrunc(_, _, _)
\* a * d + c modulo 256^Len(a), for one limb d
ScaleTrunc(a, d, c) ==
    IF Len(a) = 0 THEN <<>>
    ELSE LET s == a[1] * d + c
         IN  <<s % 256>> \o ScaleTrunc(Tail(a), d, s \div 256)

RECURSIVE WrappingMul(_, _)
\* a * b modulo 256^Len(a)
WrappingMul(a, b) ==
    IF Len(b) = 0 THEN <<>>
    ELSE LET m == Len(b)
         IN  WrappingAdd(ScaleTrunc(a, b[1], 0),
                         <<0>> \o WrappingMul(SubSeq(a, 1, m - 1), Tail(b)))

\* whether the exact product does not fit the word
MulOverflows(a, b) ==
    LET n == Len(a)
        full == WrappingMul(a \o Zeros(n), b \o Zeros(n))
    IN  SubSeq(full, n + 1, 2 * n) # Zeros(n)

RECURSIVE WordLess(_, _)
\* a < b, as unsigned numbers
WordLess(a, b) ==
    IF Len(a) = 0 THEN FALSE
    ELSE LET n == Len(a)
         IN  \/ a[n] < b[n]
             \/ a[n] = b[n] /\ WordLess(SubSeq(a, 1, n - 1), SubSeq(b, 1, n - 1))

\* the value of a word known to be below 2^24 (every length in the model is)
WordToNat(a) == a[1] + 256 * a[2] + 65536 * a[3]

RECURSIVE BitOr(_, _, _)
\* a | b on the low k bits
BitOr(a, b, k) ==
    IF k = 0 THEN 0
    ELSE (IF a % 2 = 1 \/ b % 2 = 1 THEN 1 ELSE 0)
         + 2 * BitOr(a \div 2, b \div 2, k - 1)

WordOr(a, b) == [k \in 1..Len(a) |-> BitOr(a[k], b[k], 8)]

\* a << (8 * k) on a word, bits shifted out are lost
WordShlBytes(a, k) == SubSeq(Zeros(k) \o a, 1, Len(a))

-----------------------------------------------------------------------------
(* Big-endian field decoding, TexHeader *)

\* i16::from_be_bytes
i16_from_be_bytes(b) ==
    LET u == b[1] * 256 + b[2]
    IN  IF u >= 32768 THEN u - 65536 ELSE u

\* i32::from_be_bytes
i32_from_be_bytes(b) ==
    LET low == b[2] * 65536 + b[3] * 256 + b[4]
    IN  IF b[1] >= 128 THEN (b[1] - 256) * 16777216 + low
        ELSE b[1] * 16777216 + low

\* u16::from_le_bytes
u16_from_le_bytes(b) == b[1] + 256 * b[2]

\* tex[a..b], 0-based and half-open as in the source
Slice(s, a, b) == SubSeq(s, a + 1, b)

NoHeader ==
    [magic |-> <<>>, version |-> 0, format |-> 0, mipmaps |-> 0, opaque_bitmap |-> 0,
     width |-> 0, height |-> 0, scale |-> 0, pixels_offset |-> 0, pixels_size |-> 0,
     bitmap_offset |-> 0, bitmap_size |-> 0]

TexHeader(t) ==
    [magic |-> Slice(t, 0, 4),
     version |-> t[5],
     format |-> t[6],
     mipmaps |-> t[7],
     opaque_bitmap |-> t[8],
     width |-> i16_from_be_bytes(Slice(t, 8, 10)),
     height |-> i16_from_be_bytes(Slice(t, 10, 12)),
     scale |-> i32_from_be_bytes(Slice(t, 12, 16)),
     pixels_offset |-> i32_from_be_bytes(Slice(t, 16, 20)),
     pixels_size |-> i32_from_be_bytes(Slice(t, 20, 24)),
     bitmap_offset |-> i32_from_be_bytes(Slice(t, 24, 28)),
     bitmap_size |-> i32_from_be_bytes(Slice(t, 28, 32))]

\* a lookup that leaves the 0x84 arm out
from_value_NoPvrtc(value) ==
    CASE value = 8 -> "Bgra8888"
      [] value = 10 -> "Bgra5551"
      [] OTHER -> "none"

\* TexFormat::from_value
from_value(value) ==
    CASE value = 8 -> "Bgra8888"
      [] value = 10 -> "Bgra5551"
      [] value = 132 -> "Pvrtc2Rgba"
      [] OTHER -> "none"

-----------------------------------------------------------------------------
(* Pixel conversions *)

\* a reorder that reverses the group: [B,G,R,A] -> [A,R,G,B]
ReorderPixel_Reversed(p) == <<p[4], p[3], p[2], p[1]>>

\* a reorder that rotates the colour channels: [B,G,R,A] -> [G,R,B,A]
ReorderPixel_Rotated(p) == <<p[2], p[3], p[1], p[4]>>

\* [B,G,R,A] -> [R,G,B,A]: `*pixel = [pixel[2], pixel[1], pixel[0], pixel[3]]`
ReorderPixel(p) == <<p[3], p[2], p[1], p[4]>>

\* an expansion by shifting: `c << 3`
Expand5_Shift(c) == c * 8

\* `c * 0xFF / 0x1F` on a 5-bit field, in u32 (no intermediate exceeds 2^31)
Expand5(c) == (c * 255) \div 31

\* `(pixel_value >> shift) & 0x1F`
Field5(pixel_value, shift) == (pixel_value \div (2 ^ shift)) % 32

\* `(pixel_value >> 15) * 0xFF000000`, in u32
AlphaWord(pixel_value) ==
    WrappingMul(ToWord(pixel_value \div 32768, 4), <<0, 0, 0, 255>>)

\* the u32 `rgba` of one Bgra5551 pixel
Rgba(pixel_value) ==
    WordOr(WordOr(WordOr(ToWord(Expand5(Field5(pixel_value, 10)), 4),
                         WordShlBytes(ToWord(Expand5(Field5(pixel_value, 5)), 4), 1)),
                  WordShlBytes(ToWord(Expand5(Field5(pixel_value, 0)), 4), 2)),
           AlphaWord(pixel_value))

\* the word written most significant byte first
to_le_bytes_BigEndian(w) == [k \in 1..4 |-> w[5 - k]]

\* u32::to_le_bytes
to_le_bytes(w) == [k \in 1..4 |-> w[k]]

\* `header.width as usize * header.height as usize * bpp`, with whether a
\* multiplication overflowed on the way
SizeOf(h, bpp, n) ==
    LET w == ToWord(h.width, n)
        ht == ToWord(h.height, n)
        area == WrappingMul(w, ht)
        k == ToWord(bpp, n)
    IN  [overflow |-> MulOverflows(w, ht) \/ MulOverflows(area, k),
         value |-> WrappingMul(area, k)]

\* s with the elements at 0-based positions a..a+Len(r)-1 replaced by r
Overwrite(s, a, r) ==
    [k \in 1..Len(s) |-> IF k > a /\ k <= a + Len(r) THEN r[k - a] ELSE s[k]]

\* the `pixels` slice of the file buffer
Pixels(t) == Slice(t, pixStart, pixStart + pixLen)

\* the whole Bgra8888 loop on a region: every 4-byte group reordered
ReorderAll(s) ==
    [k \in 1..Len(s) |->
        ReorderPixel(SubSeq(s, 4 * ((k - 1) \div 4) + 1, 4 * ((k - 1) \div 4) + 4))
            [((k - 1) % 4) + 1]]

\* the `buffer` reference handed to the encoder
OutBuffer == IF format = "Bgra8888" THEN Pixels(tex) ELSE buffer

-----------------------------------------------------------------------------
(* The steps of main() *)

\* `return ExitCode::FAILURE` after a message, or a panic
End(o, arg, code) ==
    /\ outcome' = o
    /\ errArg' = arg
    /\ exitCode' = code
    /\ pc' = "done"

\* a length check that is off by one
TooShort_OffByOne(t) == Len(t) < HEADER_SIZE - 1

TooShort(t) == Len(t) < HEADER_SIZE

\* a magic check that looks at the first three bytes only
MagicOk_ThreeBytes(h) == SubSeq(h.magic, 1, 3) = SubSeq(MAGIC, 1, 3)

MagicOk(h) == h.magic = MAGIC

VersionOk(h) == h.version = SUPPORTED_VERSION

CheckLength ==
    /\ pc = "start"
    /\ IF TooShort(tex)
       THEN End("Truncated", 0, "FAILURE")
       ELSE pc' = "parse" /\ UNCHANGED <<outcome, errArg, exitCode>>
    /\ UNCHANGED <<tex, tex0, usizeBytes, overflowChecks, header, headerRead, format,
                   sliced, pixStart, pixLen, buffer, i, decoded, fileCreated, sink>>

ParseHeader ==
    /\ pc = "parse"
    /\ headerRead' = TRUE
    /\ IF Len(tex) < 32
       THEN End("IndexOutOfBounds", Len(tex), "PANIC") /\ UNCHANGED header
       ELSE /\ header' = TexHeader(tex)
            /\ pc' = "magic"
            /\ UNCHANGED <<outcome, errArg, exitCode>>
    /\ UNCHANGED <<tex, tex0, usizeBytes, overflowChecks, format,
                   sliced, pixStart, pixLen, buffer, i, decoded, fileCreated, sink>>

CheckMagic ==
    /\ pc = "magic"
    /\ IF ~MagicOk(header)
       THEN End("BadMagic", 0, "FAILURE")
       ELSE pc' = "version" /\ UNCHANGED <<outcome, errArg, exitCode>>
    /\ UNCHANGED <<tex, tex0, usizeBytes, overflowChecks, header, headerRead, format,
                   sliced, pixStart, pixLen, buffer, i, decoded, fileCreated, sink>>

CheckVersion ==
    /\ pc = "version"
    /\ IF ~VersionOk(header)
       THEN End("UnsupportedVersion", header.version, "FAILURE")
       ELSE pc' = "format" /\ UNCHANGED <<outcome, errArg, exitCode>>
    /\ UNCHANGED <<tex, tex0, usizeBytes, overflowChecks, header, headerRead, format,
                   sliced, pixStart, pixLen, buffer, i, decoded, fileCreated, sink>>

LookupFormat ==
    /\ pc = "format"
    /\ LET f == from_value(header.format)
       IN  IF f = "none"
           THEN End("UnsupportedFormat", header.format, "FAILURE") /\ UNCHANGED format
           ELSE /\ format' = f
                /\ pc' = "slice"
                /\ UNCHANGED <<outcome, errArg, exitCode>>
    /\ UNCHANGED <<tex, tex0, usizeBytes, overflowChecks, header, headerRead,
                   sliced, pixStart, pixLen, buffer, i, decoded, fileCreated, sink>>

\* a range check that compares the end with the length only
SliceFails_EndOnly(start, end, len) == WordLess(len, end)

\* the bounds check of `tex[start..end]`: start > end, or end > tex.len()
SliceFails(start, end, len) == WordLess(end, start) \/ WordLess(len, end)

\* `&mut tex[pixels_offset as usize .. pixels_offset as usize + pixels_size as usize]`
SlicePixels ==
    /\ pc = "slice"
    /\ LET start == ToWord(header.pixels_offset, usizeBytes)
           size == ToWord(header.pixels_size, usizeBytes)
           end == WrappingAdd(start, size)
           len == ToWord(Len(tex), usizeBytes)
       IN  IF overflowChecks /\ AddOverflows(start, size)
           THEN End("ArithmeticOverflow", 0, "PANIC")
                /\ UNCHANGED <<sliced, pixStart, pixLen>>
           ELSE IF SliceFails(start, end, len)
           THEN End("SliceOutOfRange", 0, "PANIC")
                /\ UNCHANGED <<sliced, pixStart, pixLen>>
           ELSE /\ sliced' = TRUE
                /\ pixStart' = WordToNat(start)
                /\ pixLen' = WordToNat(end) - WordToNat(start)
                /\ pc' = "dispatch"
                /\ UNCHANGED <<outcome, errArg, exitCode>>
    /\ UNCHANGED <<tex, tex0, usizeBytes, overflowChecks, header, headerRead, format,
                   buffer, i, decoded, fileCreated, sink>>

\* `assert_eq!(width as usize * height as usize * bpp, pixels.len())`:
\* "ok", or the panic it ends in
AssertSize(h, bpp, len, n, checks) ==
    LET sz == SizeOf(h, bpp, n)
    IN  IF checks /\ sz.overflow THEN "ArithmeticOverflow"
        ELSE IF sz.value # ToWord(len, n) THEN "SizeMismatch"
        ELSE "ok"

\* match arm TexFormat::Bgra8888, up to the loop
DecodeBgra8888 ==
    /\ pc = "dispatch"
    /\ format = "Bgra8888"
    /\ LET a == AssertSize(header, 4, pixLen, usizeBytes, overflowChecks)
       IN  IF a # "ok"
           THEN End(a, 0, "PANIC") /\ UNCHANGED i
           ELSE /\ pc' = "loop8888"
                /\ i' = 0
                /\ UNCHANGED <<outcome, errArg, exitCode>>
    /\ UNCHANGED <<tex, tex0, usizeBytes, overflowChecks, header, headerRead, format,
                   sliced, pixStart, pixLen, buffer, decoded, fileCreated, sink>>

\* one iteration of `for i in (0..pixels.len()).step_by(4)`
Bgra8888Step ==
    /\ pc = "loop8888"
    /\ i < pixLen
    /\ IF i + 4 > pixLen
       THEN End("SliceOutOfRange", i, "PANIC") /\ UNCHANGED <<tex, i, decoded>>
       ELSE /\ tex' = Overwrite(tex, pixStart + i,
                                ReorderPixel(Slice(Pixels(tex), i, i + 4)))
            /\ i' = i + 4
            /\ decoded' = decoded + 1
            /\ UNCHANGED <<pc, outcome, errArg, exitCode>>
    /\ UNCHANGED <<tex0, usizeBytes, overflowChecks, header, headerRead, format,
                   sliced, pixStart, pixLen, buffer, fileCreated, sink>>

\* the loop is over: `&*pixels` is the buffer
Bgra8888Done ==
    /\ pc = "loop8888"
    /\ i >= pixLen
    /\ pc' = "encode"
    /\ UNCHANGED <<tex, tex0, usizeBytes, overflowChecks, header, headerRead, format,
                   sliced, pixStart, pixLen, buffer, i, decoded, outcome, errArg,
                   exitCode, fileCreated, sink>>

\* an allocation sized for 8 bytes per pixel
AllocLen_Oversized(h, n) == WordToNat(SizeOf(h, 8, n).value)

\* the length of `vec![MaybeUninit::uninit(); width as usize * height as usize * 4]`
AllocLen(h, n) == WordToNat(SizeOf(h, 4, n).value)

\* match arm TexFormat::Bgra5551, up to the loop
DecodeBgra5551 ==
    /\ pc = "dispatch"
    /\ format = "Bgra5551"
    /\ LET a == AssertSize(header, 2, pixLen, usizeBytes, overflowChecks)
       IN  IF a # "ok"
           THEN End(a, 0, "PANIC") /\ UNCHANGED <<i, buffer>>
           ELSE IF overflowChecks /\ SizeOf(header, 4, usizeBytes).overflow
           THEN End("ArithmeticOverflow", 0, "PANIC") /\ UNCHANGED <<i, buffer>>
           ELSE /\ buffer' = [k \in 1..AllocLen(header, usizeBytes) |-> Uninit]
                /\ pc' = "loop5551"
                /\ i' = 0
                /\ UNCHANGED <<outcome, errArg, exitCode>>
    /\ UNCHANGED <<tex, tex0, usizeBytes, overflowChecks, header, headerRead, format,
                   sliced, pixStart, pixLen, decoded, fileCreated, sink>>

\* the 0-based start of the output group of the pixel at byte i: `i << 1`
OutIndex(k) == k * 2

\* one iteration of `for i in (0..pixels.len()).step_by(2)`
Bgra5551Step ==
    /\ pc = "loop5551"
    /\ i < pixLen
    /\ IF i + 2 > pixLen \/ OutIndex(i) + 4 > Len(buffer)
       THEN End("SliceOutOfRange", i, "PANIC") /\ UNCHANGED <<buffer, i, decoded>>
       ELSE LET pixel == Slice(Pixels(tex), i, i + 2)
                pixel_value == u16_from_le_bytes(pixel)
            IN  /\ buffer' = Overwrite(buffer, OutIndex(i), to_le_bytes(Rgba(pixel_value)))
                /\ i' = i + 2
                /\ decoded' = decoded + 1
                /\ UNCHANGED <<pc, outcome, errArg, exitCode>>
    /\ UNCHANGED <<tex, tex0, usizeBytes, overflowChecks, header, headerRead, format,
                   sliced, pixStart, pixLen, fileCreated, sink>>

\* the loop is over: `temporary` takes the buffer as initialised
Bgra5551Done ==
    /\ pc = "loop5551"
    /\ i >= pixLen
    /\ pc' = "encode"
    /\ UNCHANGED <<tex, tex0, usizeBytes, overflowChecks, header, headerRead, format,
                   sliced, pixStart, pixLen, buffer, i, decoded, outcome, errArg,
                   exitCode, fileCreated, sink>>

\* the `_` arm without its `return`
Unimplemented_FallsThrough ==
    /\ pc = "dispatch"
    /\ format \notin {"Bgra8888", "Bgra5551"}
    /\ pc' = "encode"
    /\ UNCHANGED <<tex, tex0, usizeBytes, overflowChecks, header, headerRead, format,
                   sliced, pixStart, pixLen, buffer, i, decoded, outcome, errArg,
                   exitCode, fileCreated, sink>>

\* match arm `_`: Pvrtc2Rgba
Unimplemented ==
    /\ pc = "dispatch"
    /\ format \notin {"Bgra8888", "Bgra5551"}
    /\ End("Unimplemented", header.format, "FAILURE")
    /\ UNCHANGED <<tex, tex0, usizeBytes, overflowChecks, header, headerRead, format,
                   sliced, pixStart, pixLen, buffer, i, decoded, fileCreated, sink>>

\* `File::create(out_path).unwrap()`: the file system decides whether it succeeds
CreateOutput ==
    /\ pc = "encode"
    /\ \E ok \in BOOLEAN :
         IF ok
         THEN /\ fileCreated' = TRUE
              /\ pc' = "write"
              /\ UNCHANGED <<outcome, errArg, exitCode>>
         ELSE End("IoError", 0, "PANIC") /\ UNCHANGED fileCreated
    /\ UNCHANGED <<tex, tex0, usizeBytes, overflowChecks, header, headerRead, format,
                   sliced, pixStart, pixLen, buffer, i, decoded, sink>>

\* Encoder::new(file, width as u32, height as u32), write_header, write_image_data:
\* the encoder decides whether it accepts what it is handed
WriteImage ==
    /\ pc = "write"
    /\ sink' = [called |-> TRUE,
                width |-> ToWord(header.width, 4),
                height |-> ToWord(header.height, 4),
                data |-> OutBuffer]
    /\ \E ok \in BOOLEAN :
         IF ok THEN End("Success", 0, "SUCCESS") ELSE End("IoError", 0, "PANIC")
    /\ UNCHANGED <<tex, tex0, usizeBytes, overflowChecks, header, headerRead, format,
                   sliced, pixStart, pixLen, buffer, i, decoded, fileCreated>>

-----------------------------------------------------------------------------
(* The input files *)

\* big-endian bytes of x in n bytes, as a file holds a header field
BeBytes(x, n) == LET w == ToWord(x, n) IN [k \in 1..n |-> w[n + 1 - k]]

MkHeader(magic, version, fmt, w, h, off, size) ==
    magic \o <<version, fmt, 1, 0>> \o BeBytes(w, 2) \o BeBytes(h, 2)
          \o BeBytes(1, 4) \o BeBytes(off, 4) \o BeBytes(size, 4)
          \o BeBytes(0, 4) \o BeBytes(0, 4)

Prefix(s, n) == SubSeq(s, 1, IF n < Len(s) THEN n ELSE Len(s))

Filler(n) == [k \in 1..n |-> (16 * k) % 256]

\* headers that differ in magic, version, format and length
ValidationInputs ==
    { Prefix(MkHeader(m, v, f, 1, 1, 32, 4) \o Filler(4), n) :
        m \in {MAGIC, <<84, 69, 88, 13>>, <<116, 69, 88, 10>>},
        v \in {0, 2, 3},
        f \in {8, 10, 132, 0, 9},
        n \in {0, 3, 4, 31, 32, 36} }

\* well-formed prefixes that differ in dimensions and in the pixel region
GeometryInputs ==
    { MkHeader(MAGIC, 2, f, w, h, off, size) \o Filler(n) :
        f \in {8, 10, 132},
        w \in (-MaxDim)..MaxDim, h \in (-MaxDim)..MaxDim,
        off \in {-4, 32, 34, 48},
        size \in {-4, 0, 2, 4, 8, 40},
        n \in {4, 8} }

\* 16-bit pixels in which every channel takes every 5-bit value
PixelValues ==
    { c * 1024 + ((c + 11) % 32) * 32 + ((c + 21) % 32) + (c % 2) * 32768 : c \in 0..31 }
    \cup {0, 65535, 32767, 32768}

ByteGroups ==
    { <<b, g, r, a>> : b \in {16, 255}, g \in {32, 0}, r \in {48, 255, 16}, a \in {64, 0} }

\* n pixels: the first two vary freely, the others repeat them
Region(n, p, q) == [k \in 1..n |-> IF k % 2 = 1 THEN p ELSE q]

RECURSIVE Flatten(_)
Flatten(ss) == IF Len(ss) = 0 THEN <<>> ELSE Head(ss) \o Flatten(Tail(ss))

LeBytes16(v) == <<v % 256, v \div 256>>

\* well-formed files that differ in their pixels; the region starts one byte
\* after the header and one byte follows it
PixelInputs ==
    { MkHeader(MAGIC, 2, 10, n, 1, 33, 2 * n) \o <<7>>
        \o Flatten(Region(n, LeBytes16(p), LeBytes16(q))) \o <<9>> :
        n \in 1..MaxPixels, p \in PixelValues, q \in PixelValues }
    \cup
    { MkHeader(MAGIC, 2, 8, n, 1, 33, 4 * n) \o <<7>>
        \o Flatten(Region(n, p, q)) \o <<9>> :
        n \in 1..MaxPixels, p \in ByteGroups, q \in ByteGroups }

Inputs == ValidationInputs \cup GeometryInputs \cup PixelInputs

-----------------------------------------------------------------------------

Init ==
    /\ tex \in Inputs
    /\ tex0 = tex
    /\ usizeBytes \in {4, 8}
    /\ overflowChecks \in BOOLEAN
    /\ pc = "start"
    /\ header = NoHeader
    /\ headerRead = FALSE
    /\ format = "none"
    /\ sliced = FALSE
    /\ pixStart = 0
    /\ pixLen = 0
    /\ buffer = <<>>
    /\ i = 0
    /\ decoded = 0
    /\ outcome = "running"
    /\ errArg = 0
    /\ exitCode = "none"
    /\ fileCreated = FALSE
    /\ sink = [called |-> FALSE, width |-> <<>>, height |-> <<>>, data |-> <<>>]

Next ==
    \/ CheckLength
    \/ ParseHeader
    \/ CheckMagic
    \/ CheckVersion
    \/ LookupFormat
    \/ SlicePixels
    \/ DecodeBgra8888
    \/ Bgra8888Step
    \/ Bgra8888Done
    \/ DecodeBgra5551
    \/ Bgra5551Step
    \/ Bgra5551Done
    \/ Unimplemented
    \/ CreateOutput
    \/ WriteImage

Spec == Init /\ [][Next]_vars

-----------------------------------------------------------------------------
(* Vocabulary of the properties, stated on the file as read and on the      *)
(* parsed header fields, in unbounded integer arithmetic                    *)

Done == pc = "done"

MagicBytes == <<84, 69, 88, 10>>

LongEnough == Len(tex0) >= 32

ValidPrefix == LongEnough /\ SubSeq(tex0, 1, 4) = MagicBytes /\ tex0[5] = 2

KnownFormatByte == tex0[6] \in {8, 10, 132}

\* the declared pixel region lies within the file
RegionInFile ==
    /\ header.pixels_offset >= 0
    /\ header.pixels_size >= 0
    /\ header.pixels_offset + header.pixels_size <= Len(tex0)

\* byte k (0-based) of the declared pixel region, in the file as read
OrigByte(k) == tex0[header.pixels_offset + k + 1]

PixelCount == header.width * header.height

\* the decode loop of an implemented format has run to its end
DecodeFinished ==
    \/ pc \in {"encode", "write"}
    \/ Done /\ outcome \in {"Success", "IoError"}

NoOutput == ~fileCreated /\ ~sink.called /\ exitCode # "SUCCESS"

SliceFailure == outcome \in {"SliceOutOfRange", "ArithmeticOverflow"} /\ exitCode = "PANIC"

-----------------------------------------------------------------------------
(* C1 *)

\* C1 as stated: a valid prefix with format byte 0x84 always ends in
\* Unimplemented, whatever the other header fields and the file length are.
C1_AlwaysUnimplemented ==
    (Done /\ ValidPrefix /\ tex0[6] = 132) => outcome = "Unimplemented" /\ NoOutput

\* C1 amended: a valid prefix with format byte 0x84 never produces output; it
\* ends in Unimplemented exactly when the declared pixel region lies within the
\* file, and otherwise in the fatal out-of-range slice (or the overflow panic of
\* an overflow-checked build), because the region is sliced before the dispatch.
C1_UnimplementedOrSliceFailure ==
    (Done /\ ValidPrefix /\ tex0[6] = 132) =>
        /\ NoOutput
        /\ decoded = 0
        /\ RegionInFile => (outcome = "Unimplemented" /\ errArg = 132 /\ exitCode = "FAILURE")
        /\ ~RegionInFile => SliceFailure

C1_Witness ==
    /\ Done /\ ValidPrefix /\ tex0[6] = 132
    /\ outcome = "Unimplemented"
    /\ header.width = 2 /\ header.pixels_size = 8

-----------------------------------------------------------------------------
(* C2 *)

-----------------------------------------------------------------------------
(* C3 *)

\* C3: on a file of at least 32 bytes the failures are classified in the order
\* magic, version, format: wrong magic is BadMagic whatever the version and
\* format bytes are; right magic with version # 2 is UnsupportedVersion(version)
\* whatever the format byte is; right magic and version with a format byte
\* outside {0x08, 0x0A, 0x84} is UnsupportedFormat(byte); and the format is
\* looked up before the pixel region is sliced or a pixel is decoded.
C3_Precedence ==
    /\ (Done /\ LongEnough /\ SubSeq(tex0, 1, 4) # MagicBytes) =>
          outcome = "BadMagic" /\ exitCode = "FAILURE"
    /\ (Done /\ LongEnough /\ SubSeq(tex0, 1, 4) = MagicBytes /\ tex0[5] # 2) =>
          outcome = "UnsupportedVersion" /\ errArg = tex0[5] /\ exitCode = "FAILURE"
    /\ (Done /\ ValidPrefix /\ ~KnownFormatByte) =>
          outcome = "UnsupportedFormat" /\ errArg = tex0[6] /\ exitCode = "FAILURE"
    /\ outcome \in {"BadMagic", "UnsupportedVersion", "UnsupportedFormat"} =>
          ~sliced /\ decoded = 0 /\ format = "none"
    /\ (sliced \/ decoded > 0) => (format # "none" /\ ValidPrefix /\ KnownFormatByte)

C3_Witness ==
    /\ Done /\ outcome = "BadMagic"
    /\ Len(tex0) = 36
    /\ tex0[5] = 3
    /\ tex0[6] = 9

-----------------------------------------------------------------------------
(* C4 *)

\* C4: a file shorter than 32 bytes (the empty file included) ends in Truncated
\* with no byte of it indexed and no header field, magic, version or format
\* check reached.
C4_Truncated ==
    Len(tex0) < 32 =>
        /\ ~headerRead
        /\ header = NoHeader
        /\ format = "none"
        /\ pc \in {"start", "done"}
        /\ Done => (outcome = "Truncated" /\ exitCode = "FAILURE")

C4_Witness == Done /\ outcome = "Truncated" /\ Len(tex0) = 0 /\ ~headerRead

-----------------------------------------------------------------------------
(* C5 *)

\* the 16-bit value of pixel k of the declared region, little-endian
OrigValue(k) == OrigByte(2 * k) + 256 * OrigByte(2 * k + 1)

\* the four output bytes the Bgra5551 rule prescribes for the value v
Expected5551(v) ==
    <<(((v \div 1024) % 32) * 255) \div 31,
      (((v \div 32) % 32) * 255) \div 31,
      ((v % 32) * 255) \div 31,
      IF (v \div 32768) % 2 = 1 THEN 255 ELSE 0>>

\* C5: on the Bgra5551 path, once the loop is over, output bytes 4k..4k+3 of
\* every pixel k in [0, width*height) are [R, G, B, A] as expanded from the
\* little-endian value at region bytes 2k, 2k+1, alpha being 0x00 or 0xFF only;
\* every byte of the width*height*4 buffer has been written before the buffer
\* is read, and the sink is handed exactly that buffer; the file buffer is
\* untouched; pixel bytes [0xFF,0xFF] give [0xFF,0xFF,0xFF,0xFF].
C5_Bgra5551Pixels ==
    /\ (format = "Bgra5551" /\ DecodeFinished) =>
          /\ PixelCount >= 0
          /\ Len(buffer) = PixelCount * 4
          /\ \A k \in 0..(PixelCount - 1) :
                /\ SubSeq(buffer, 4 * k + 1, 4 * k + 4) = Expected5551(OrigValue(k))
                /\ buffer[4 * k + 4] \in {0, 255}
                /\ (OrigByte(2 * k) = 255 /\ OrigByte(2 * k + 1) = 255) =>
                      SubSeq(buffer, 4 * k + 1, 4 * k + 4) = <<255, 255, 255, 255>>
          /\ \A j \in 1..Len(buffer) : buffer[j] # Uninit
          /\ tex = tex0
          /\ sink.called => sink.data = buffer
    /\ (format = "Bgra5551" /\ sink.called) => DecodeFinished

C5_Witness ==
    /\ Done /\ outcome = "Success"
    /\ format = "Bgra5551"
    /\ header.width = 1 /\ header.height = 1
    /\ OrigByte(0) = 255 /\ OrigByte(1) = 255
    /\ sink.data = <<255, 255, 255, 255>>

-----------------------------------------------------------------------------
(* C6 *)

\* C6: on the Bgra8888 path, once the loop is over, every 4-byte group
\* [B,G,R,A] of the pixel region reads [R,G,B,A]: bytes 0 and 2 of the group
\* exchanged, bytes 1 and 3 unchanged; every byte of the file buffer outside
\* the region is unchanged; the sink is handed the region;
\* [0x10,0x20,0x30,0x40] gives [0x30,0x20,0x10,0x40].
C6_Bgra8888Pixels ==
    /\ (format = "Bgra8888" /\ DecodeFinished) =>
          /\ PixelCount >= 0
          /\ header.pixels_size = PixelCount * 4
          /\ Len(tex) = Len(tex0)
          /\ \A k \in 0..(PixelCount - 1) :
                LET at == header.pixels_offset + 4 * k
                IN  /\ tex[at + 1] = tex0[at + 3]
                    /\ tex[at + 2] = tex0[at + 2]
                    /\ tex[at + 3] = tex0[at + 1]
                    /\ tex[at + 4] = tex0[at + 4]
                    /\ SubSeq(tex0, at + 1, at + 4) = <<16, 32, 48, 64>> =>
                          SubSeq(tex, at + 1, at + 4) = <<48, 32, 16, 64>>
          /\ \A j \in 1..Len(tex0) :
                (j <= header.pixels_offset \/ j > header.pixels_offset + header.pixels_size)
                    => tex[j] = tex0[j]
          /\ sink.called =>
                sink.data = SubSeq(tex, header.pixels_offset + 1,
                                   header.pixels_offset + header.pixels_size)
    /\ (format = "Bgra8888" /\ sink.called) => DecodeFinished

C6_Witness ==
    /\ Done /\ outcome = "Success"
    /\ format = "Bgra8888"
    /\ header.width = 1 /\ header.height = 1
    /\ SubSeq(tex0, header.pixels_offset + 1, header.pixels_offset + 4) = <<16, 32, 48, 64>>
    /\ sink.data = <<48, 32, 16, 64>>

-----------------------------------------------------------------------------
(* C7 *)

\* the 5-bit field of pixel k at the given shift, in the file as read
OrigField(k, shift) == (OrigValue(k) \div (2 ^ shift)) % 32

\* channel ch (0 = R, 1 = G, 2 = B) of pixel k: its shift in the pixel value
ShiftOf(ch) == 10 - 5 * ch

\* C7: on the Bgra5551 path every expanded R, G and B byte is in [0,255], is 0
\* for the field 0 and 255 for the field 31, and is non-decreasing in the field
\* (compared across the pixels of one image); a channel's byte depends on its
\* own field alone, so no expansion spills into a neighbouring channel's byte.
C7_Expansion ==
    (format = "Bgra5551" /\ DecodeFinished) =>
        \A ch \in 0..2 :
            \A k \in 0..(PixelCount - 1) :
                LET c == OrigField(k, ShiftOf(ch))
                    out == buffer[4 * k + ch + 1]
                IN  /\ out \in 0..255
                    /\ c = 0 => out = 0
                    /\ c = 31 => out = 255
                    /\ \A m \in 0..(PixelCount - 1) :
                          LET d == OrigField(m, ShiftOf(ch))
                              outm == buffer[4 * m + ch + 1]
                          IN  /\ c <= d => out <= outm
                              /\ c = d => out = outm

C7_Witness ==
    /\ format = "Bgra5551" /\ DecodeFinished
    /\ PixelCount = 2
    /\ OrigField(0, 10) = 12 /\ OrigField(1, 10) = 13
    /\ buffer[1] = 98 /\ buffer[5] = 106

-----------------------------------------------------------------------------
(* C8 *)

\* C8: the Bgra8888 reorder is an involution on regions whose length is a
\* multiple of 4: reordering the region the program has reordered gives back
\* the region as read, and so does reordering the region as read twice.
C8_Involution ==
    (format = "Bgra8888" /\ DecodeFinished) =>
        LET orig == SubSeq(tex0, header.pixels_offset + 1,
                           header.pixels_offset + header.pixels_size)
        IN  /\ Len(orig) % 4 = 0
            /\ ReorderAll(Pixels(tex)) = orig
            /\ ReorderAll(ReorderAll(orig)) = orig
            /\ Pixels(tex) = ReorderAll(orig)

C8_Witness ==
    /\ format = "Bgra8888" /\ DecodeFinished
    /\ decoded = 2
    /\ Pixels(tex) # SubSeq(tex0, header.pixels_offset + 1,
                            header.pixels_offset + header.pixels_size)
    /\ tex[header.pixels_offset + 1] # tex[header.pixels_offset + 5]

-----------------------------------------------------------------------------
(* C9 *)

PastFormatCheck == format # "none"

\* C9: for a header that passed the magic, version and format checks, a declared
\* region that does not lie within the file (negative offset or size, ends that
\* wrap, ends past the file) is fatal: the slice is never taken, no pixel is
\* decoded, nothing reaches the sink; and a region whose length is not
\* width*height*4 (Bgra8888) or width*height*2 (Bgra5551) is fatal too.
C9_FatalRegion ==
    /\ (PastFormatCheck /\ ~RegionInFile) =>
          /\ ~sliced /\ decoded = 0 /\ NoOutput
          /\ pc \in {"slice", "done"}
          /\ Done => SliceFailure
    /\ (sliced /\ format = "Bgra8888" /\ header.pixels_size # PixelCount * 4) =>
          /\ decoded = 0 /\ NoOutput
          /\ pc \in {"dispatch", "done"}
          /\ Done => (outcome \in {"SizeMismatch", "ArithmeticOverflow"}
                      /\ exitCode = "PANIC")
    /\ (sliced /\ format = "Bgra5551" /\ header.pixels_size # PixelCount * 2) =>
          /\ decoded = 0 /\ NoOutput
          /\ pc \in {"dispatch", "done"}
          /\ Done => (outcome \in {"SizeMismatch", "ArithmeticOverflow"}
                      /\ exitCode = "PANIC")

C9_Witness ==
    /\ Done /\ outcome = "SliceOutOfRange"
    /\ ~overflowChecks
    /\ header.pixels_offset = -4 /\ header.pixels_size = 40
    /\ Len(tex0) = 40

-----------------------------------------------------------------------------
(* C10 *)

ValidationFailures ==
    {"Truncated", "BadMagic", "UnsupportedVersion", "UnsupportedFormat",
     "SliceOutOfRange", "ArithmeticOverflow", "SizeMismatch", "Unimplemented",
     "IndexOutOfBounds"}

\* C10: the output file is created, and the sink invoked, only after the length,
\* magic, version and format checks, the slice, the size assertion and the whole
\* decode have succeeded, the file before the sink; a run that fails at any of
\* those steps creates no file, invokes no sink and does not report success.
C10_OutputOnlyAfterDecode ==
    /\ (fileCreated \/ sink.called \/ exitCode = "SUCCESS") =>
          /\ ValidPrefix /\ headerRead
          /\ format \in {"Bgra8888", "Bgra5551"}
          /\ sliced /\ RegionInFile
          /\ header.pixels_size = PixelCount * (IF format = "Bgra8888" THEN 4 ELSE 2)
          /\ decoded = PixelCount
          /\ i >= pixLen
          /\ DecodeFinished
    /\ sink.called => fileCreated
    /\ exitCode = "SUCCESS" => (sink.called /\ outcome = "Success")
    /\ outcome \in ValidationFailures => (Done /\ NoOutput)
    /\ pc \notin {"encode", "write", "done"} => NoOutput

C10_Witness ==
    /\ Done /\ outcome = "SizeMismatch"
    /\ format = "Bgra5551"
    /\ header.width = 2 /\ header.height = 2 /\ header.pixels_size = 4
    /\ ~fileCreated

====
